---- MODULE Spec2Model ----
(***************************************************************************)
(* Model of rls (src/main.rs): a directory lister.  main() checks that the *)
(* path is a directory, read_directory() builds the FSFile snapshot to the *)
(* depth given by --tree, and list() renders it flat, detailed or as a     *)
(* tree.  The filesystem, the command-line arguments and the user database *)
(* are the inputs; the snapshot, the output lines and the exit status are  *)
(* the results.                                                            *)
(*                                                                         *)
(* ARGS is set on line 53 before its first use, so ARGS.get() always       *)
(* succeeds; stdout is taken to accept every write; the trace! and warn!   *)
(* diagnostics are not part of the state.                                  *)
(***************************************************************************)
EXTENDS Integers, Sequences, FiniteSets, TLC

VARIABLES fs, order, args, pc, dir_entry, out, exit_code, fs_file, users, row

vars == <<fs, order, args, pc, dir_entry, out, exit_code, fs_file, users, row>>

(***************************************************************************)
(* Bounds of the model.                                                    *)
(***************************************************************************)
\* Largest value of --tree that is drawn (the field is a u8).
MaxTree == 3
\* Number of entries of the filesystem that deviate from a plain directory.
MaxFaults == 1

(***************************************************************************)
(* The filesystem.  Node 0 is the path given on the command line; node n>0 *)
(* lives in directory ParentOf[n].  Every node is a readable directory     *)
(* with a plain name unless a deviation says otherwise.                    *)
(***************************************************************************)
ParentOf == <<0, 0, 0, 3, 3, 5>>

Nodes == 1..Len(ParentOf)

AllNodes == {0} \cup Nodes

Children(n) == {c \in Nodes : ParentOf[c] = n}

\* The byte '.', which marks a hidden name.
DOT == 46

\* The plain name of node n: one letter, 'a' for the root, 'b' for node 1, ...
PlainName(n) == <<97 + n>>

PlainNode(n) ==
    [kind |-> "Dir", entOk |-> TRUE, metaOk |-> TRUE, listOk |-> TRUE,
     name |-> PlainName(n)]

PlainFs == [n \in AllNodes |-> PlainNode(n)]

NoFault == [node |-> 0, what |-> "none"]

Deviations ==
    [node : Nodes,
     what : {"file", "symlink", "direrr", "nometa", "nolist", "hidden", "nonutf8"}]
    \cup [node : {0}, what : {"file", "nometa", "nolist", "hidden", "nonutf8", "noname"}]

ApplyFault(f, d) ==
    IF d.what = "none" THEN f
    ELSE [f EXCEPT ![d.node] =
            CASE d.what = "file"    -> [@ EXCEPT !.kind = "File"]
              [] d.what = "symlink" -> [@ EXCEPT !.kind = "Symlink"]
              [] d.what = "direrr"  -> [@ EXCEPT !.entOk = FALSE]
              [] d.what = "nometa"  -> [@ EXCEPT !.metaOk = FALSE]
              [] d.what = "nolist"  -> [@ EXCEPT !.listOk = FALSE]
              [] d.what = "hidden"  -> [@ EXCEPT !.name = <<DOT>> \o PlainName(d.node)]
              [] d.what = "nonutf8" -> [@ EXCEPT !.name = <<255>> \o PlainName(d.node)]
              [] d.what = "noname"  -> [@ EXCEPT !.name = <<>>]]

RECURSIVE ApplyFaults(_, _)
ApplyFaults(f, ds) ==
    IF ds = <<>> THEN f ELSE ApplyFaults(ApplyFault(f, Head(ds)), Tail(ds))

FileSystems ==
    {ApplyFaults(PlainFs, ds) : ds \in [1..MaxFaults -> Deviations \cup {NoFault}]}

(***************************************************************************)
(* Option values.                                                          *)
(***************************************************************************)
None == [some |-> FALSE, v |-> <<>>]
Some(x) == [some |-> TRUE, v |-> x]

Ok(x) == [ok |-> TRUE, val |-> x, err |-> ""]
Err(e) == [ok |-> FALSE, val |-> <<>>, err |-> e]

(***************************************************************************)
(* Paths and names.  A path is the sequence of its normal components; the  *)
(* paths "/" and "." have none.                                            *)
(***************************************************************************)
RECURSIVE PathOf(_)
PathOf(n) ==
    IF n = 0
    THEN (IF fs[0].name = <<>> THEN <<>> ELSE <<fs[0].name>>)
    ELSE Append(PathOf(ParentOf[n]), fs[n].name)

\* Path::file_name: the last normal component, if there is one.
FileName(path) == IF path = <<>> THEN None ELSE Some(path[Len(path)])

\* OsStr::to_str: Some when the bytes are valid UTF-8.
ToStr(name) ==
    IF \E i \in DOMAIN name : name[i] >= 128 THEN None ELSE Some(name)

\* str::starts_with('.')
StartsWithDot(s) == Len(s) > 0 /\ s[1] = DOT

\* Ord of byte strings (OsStr): lexicographic.
RECURSIVE LessBytes(_, _)
LessBytes(a, b) ==
    IF b = <<>> THEN FALSE
    ELSE IF a = <<>> THEN TRUE
    ELSE IF Head(a) /= Head(b) THEN Head(a) < Head(b)
    ELSE LessBytes(Tail(a), Tail(b))

\* Ord of PathBuf: lexicographic over the components.
RECURSIVE LessPath(_, _)
LessPath(p, q) ==
    IF q = <<>> THEN FALSE
    ELSE IF p = <<>> THEN TRUE
    ELSE IF Head(p) /= Head(q) THEN LessBytes(Head(p), Head(q))
    ELSE LessPath(Tail(p), Tail(q))

(***************************************************************************)
(* Metadata of a node, as stat reports it.                                 *)
(***************************************************************************)
S_IFMT == 61440
S_IFDIR == 16384
S_IFREG == 32768
S_IFLNK == 40960

RECURSIVE BitAnd(_, _)
BitAnd(a, b) ==
    IF a = 0 \/ b = 0 THEN 0
    ELSE (a % 2) * (b % 2) + 2 * BitAnd(a \div 2, b \div 2)

IdSet == {0, 1}

MetadataOf(n) ==
    [ino  |-> n,
     mode |-> CASE fs[n].kind = "Dir"  -> S_IFDIR + 493
                [] fs[n].kind = "File" -> S_IFREG + 420
                [] OTHER               -> S_IFLNK + 511,
     uid  |-> n % 2,
     gid  |-> (n \div 2) % 2,
     size |-> n]

IsDir(md) == BitAnd(md.mode, S_IFMT) = S_IFDIR
IsFile(md) == BitAnd(md.mode, S_IFMT) = S_IFREG
IsSymlink(md) == BitAnd(md.mode, S_IFMT) = S_IFLNK

(***************************************************************************)
(* read_directory and its helpers.                                         *)
(***************************************************************************)
FSFile(name, path, md, type, childs) ==
    [name |-> name, path_buf |-> path, metadata |-> md,
     entry_type |-> type, childs |-> childs]

RECURSIVE SeqAsc(_)
SeqAsc(S) ==
    IF S = {} THEN <<>>
    ELSE LET m == CHOOSE x \in S : \A y \in S : x <= y
         IN <<m>> \o SeqAsc(S \ {m})

Reverse(s) == [i \in 1..Len(s) |-> s[Len(s) + 1 - i]]

\* Path::read_dir: one io::Result<DirEntry> per entry, in the order the
\* filesystem yields them.
ReadDir(n, ord) ==
    IF fs[n].kind = "Dir" /\ fs[n].listOk
    THEN LET ids == IF ord = "fwd" THEN SeqAsc(Children(n))
                    ELSE Reverse(SeqAsc(Children(n)))
         IN Ok([i \in 1..Len(ids) |->
                   IF fs[ids[i]].entOk THEN Ok(ids[i]) ELSE Err("io")])
    ELSE Err("Failed to read dir")

\* filter_map(|e| e.ok()).collect()
Unwrapped(results) == [i \in 1..Len(results) |-> results[i].val]

CollectOk(read_dir) == Unwrapped(SelectSeq(read_dir, LAMBDA e : e.ok))

\* Mutant of FilterHidden: the test for the leading '.' is lost.
FilterHiddenKeepsAll(read_dir) == CollectOk(read_dir)

FilterHidden(read_dir) ==
    Unwrapped(SelectSeq(read_dir,
                        LAMBDA e : /\ e.ok
                                   /\ LET s == ToStr(fs[e.val].name)
                                      IN s.some /\ ~StartsWithDot(s.v)))

\* Vec::sort_by_key on path_buf: a stable sort.
RECURSIVE InsertSorted(_, _)
InsertSorted(sorted, e) ==
    IF sorted = <<>> THEN <<e>>
    ELSE IF LessPath(e.path_buf, Head(sorted).path_buf)
         THEN <<e>> \o sorted
         ELSE <<Head(sorted)>> \o InsertSorted(Tail(sorted), e)

\* Mutant of SortByKey: the children stay in the order of discovery.
SortByKeyUnsorted(childs) == childs

RECURSIVE SortByKey(_)
SortByKey(childs) ==
    IF childs = <<>> THEN <<>>
    ELSE InsertSorted(SortByKey(SubSeq(childs, 1, Len(childs) - 1)),
                      childs[Len(childs)])

RECURSIVE ReadDirectory(_, _, _, _)
RECURSIVE CollectChilds(_, _, _, _)
RECURSIVE CollectChildsSameDepth(_, _, _, _)
RECURSIVE CollectChildsFailFast(_, _, _, _)

\* Mutant of CollectChilds: the recursive call does not consume the budget.
CollectChildsSameDepth(dir_entry_list, depth, all, ord) ==
    IF dir_entry_list = <<>> THEN <<>>
    ELSE LET d    == Head(dir_entry_list)
             rest == CollectChildsSameDepth(Tail(dir_entry_list), depth, all, ord)
         IN IF ~fs[d].metaOk THEN rest
            ELSE LET subdir_metadata == MetadataOf(d)
                 IN IF IsDir(subdir_metadata)
                    THEN LET sub_dir == ReadDirectory(d, depth, all, ord)
                         IN IF sub_dir.ok THEN <<sub_dir.val>> \o rest ELSE rest
                    ELSE IF IsFile(subdir_metadata)
                    THEN LET subdir_name == ToStr(fs[d].name)
                         IN IF subdir_name.some
                            THEN <<FSFile(subdir_name.v, PathOf(d), subdir_metadata,
                                          "File", <<>>)>> \o rest
                            ELSE rest
                    ELSE rest

\* Mutant of CollectChilds: the first entry that fails ends the loop.
CollectChildsFailFast(dir_entry_list, depth, all, ord) ==
    IF dir_entry_list = <<>> THEN <<>>
    ELSE LET d    == Head(dir_entry_list)
             rest == CollectChildsFailFast(Tail(dir_entry_list), depth, all, ord)
         IN IF ~fs[d].metaOk THEN <<>>
            ELSE LET subdir_metadata == MetadataOf(d)
                 IN IF IsDir(subdir_metadata)
                    THEN LET sub_dir == ReadDirectory(d, (depth - 1) % 256, all, ord)
                         IN IF sub_dir.ok THEN <<sub_dir.val>> \o rest ELSE <<>>
                    ELSE IF IsFile(subdir_metadata)
                    THEN LET subdir_name == ToStr(fs[d].name)
                         IN IF subdir_name.some
                            THEN <<FSFile(subdir_name.v, PathOf(d), subdir_metadata,
                                          "File", <<>>)>> \o rest
                            ELSE <<>>
                    ELSE rest

\* The loop over the directory entries (lines 115-141).
CollectChilds(dir_entry_list, depth, all, ord) ==
    IF dir_entry_list = <<>> THEN <<>>
    ELSE LET d    == Head(dir_entry_list)
             rest == CollectChilds(Tail(dir_entry_list), depth, all, ord)
         IN IF ~fs[d].metaOk THEN rest
            ELSE LET subdir_metadata == MetadataOf(d)
                 IN IF IsDir(subdir_metadata)
                    THEN LET sub_dir == ReadDirectory(d, (depth - 1) % 256, all, ord)
                         IN IF sub_dir.ok THEN <<sub_dir.val>> \o rest ELSE rest
                    ELSE IF IsFile(subdir_metadata)
                    THEN LET subdir_name == ToStr(fs[d].name)
                         IN IF subdir_name.some
                            THEN <<FSFile(subdir_name.v, PathOf(d), subdir_metadata,
                                          "File", <<>>)>> \o rest
                            ELSE rest
                    ELSE IF IsSymlink(subdir_metadata)
                    THEN rest
                    ELSE rest

ReadDirectory(n, depth, all, ord) ==
    LET path  == PathOf(n)
        fname == FileName(path)
    IN IF ~fname.some THEN Err("failed to read file name")
       ELSE IF ~ToStr(fname.v).some THEN Err("Failed to read file name")
       ELSE IF ~fs[n].metaOk THEN Err("Failed to open metadata")
       ELSE IF depth = 0
       THEN Ok(FSFile(ToStr(fname.v).v, path, MetadataOf(n), "Dir", <<>>))
       ELSE LET read_dir == ReadDir(n, ord)
            IN IF ~read_dir.ok THEN Err("Failed to read dir")
               ELSE LET dir_entry_list ==
                            IF all THEN CollectOk(read_dir.val)
                            ELSE FilterHidden(read_dir.val)
                        childs == CollectChilds(dir_entry_list, depth, all, ord)
                    IN Ok(FSFile(ToStr(fname.v).v, path, MetadataOf(n), "Dir",
                                 SortByKey(childs)))

(***************************************************************************)
(* main                                                                    *)
(***************************************************************************)
NoEntry == FSFile(<<>>, <<>>, [ino |-> 0, mode |-> 0, uid |-> 0, gid |-> 0, size |-> 0],
                  "File", <<>>)

Init ==
    /\ fs \in FileSystems
    /\ order \in {"fwd", "rev"}
    /\ args \in [list : BOOLEAN, all : BOOLEAN, tree : 0..MaxTree]
    /\ pc = "main"
    /\ dir_entry = NoEntry
    /\ out = <<>>
    /\ exit_code = -1
    /\ fs_file = NoEntry
    /\ users = [i \in IdSet |-> "name"]
    /\ row = Err("")

\* Path::is_dir: the metadata can be read and says directory.
PathIsDir(n) == fs[n].metaOk /\ fs[n].kind = "Dir"

(***************************************************************************)
(* parse_dir_entry: one row of the detailed listing.                       *)
(***************************************************************************)
\* The user database: what get_user_by_uid finds for an id.
UserDbs == [IdSet -> {"none", "name", "nonutf8"}]

\* The name of the user with the given id, as bytes ("u0", "u1").
UserName(id) == <<117, 48 + id>>

\* u64::to_string: the decimal digits.
RECURSIVE ToDecimal(_)
ToDecimal(n) ==
    IF n < 10 THEN <<48 + n>> ELSE Append(ToDecimal(n \div 10), 48 + (n % 10))

Letter(mode, mask, letter) == IF BitAnd(mode, mask) > 0 THEN letter ELSE "-"

PermissionString(md) ==
    LET mode == md.mode
        d  == IF IsDir(md) THEN "d" ELSE "-"
        ue == Letter(mode, 64, "x")
        ur == Letter(mode, 128, "r")
        uw == Letter(mode, 256, "w")
        ge == Letter(mode, 8, "x")
        gr == Letter(mode, 16, "r")
        gw == Letter(mode, 32, "w")
        ae == Letter(mode, 1, "x")
        ar == Letter(mode, 2, "r")
        aw == Letter(mode, 4, "w")
    IN <<d, ue, ur, uw, ge, gr, gw, ae, ar, aw>>

NoCols == [modes |-> <<>>, usr |-> <<>>, grp |-> <<>>, size |-> <<>>]

\* Both the uid and the gid are looked up with get_user_by_uid.
ParseDirEntry(f, db) ==
    LET md    == f.metadata
        modes == PermissionString(md)
    IN IF db[md.uid] = "none" THEN Err("Owner")
       ELSE IF db[md.uid] = "nonutf8" THEN Err("Owner")
       ELSE IF db[md.gid] = "none" THEN Err("Group")
       ELSE IF db[md.gid] = "nonutf8" THEN Err("group")
       ELSE Ok([kind |-> "row", prefix |-> <<>>, name |-> f.name,
                cols |-> [modes |-> modes, usr |-> UserName(md.uid),
                          grp |-> UserName(md.gid), size |-> ToDecimal(md.size)]])

(***************************************************************************)
(* The renderers.  An output item is a header, a detailed row, a name of   *)
(* the flat listing, a line of the tree or the final newline.              *)
(***************************************************************************)
ITEM_SIGN == "|-"
LAST_SIGN == "|_"
INDENT == "|  "

Header == [kind |-> "header", prefix |-> <<>>, name |-> <<>>, cols |-> NoCols]
Newline == [kind |-> "newline", prefix |-> <<>>, name |-> <<>>, cols |-> NoCols]
FlatName(f) == [kind |-> "name", prefix |-> <<>>, name |-> f.name, cols |-> NoCols]
TreeLine(prefix, f) == [kind |-> "line", prefix |-> prefix, name |-> f.name, cols |-> NoCols]

\* print_dir: the items written, and whether it returned Ok.
RECURSIVE PrintChilds(_, _, _)
PrintChilds(childs, list, db) ==
    IF childs = <<>> THEN [ok |-> TRUE, items |-> <<>>]
    ELSE LET child == Head(childs)
             output_string == IF list THEN ParseDirEntry(child, db) ELSE Ok(FlatName(child))
         IN IF ~output_string.ok THEN [ok |-> FALSE, items |-> <<>>]
            ELSE LET rest == PrintChilds(Tail(childs), list, db)
                 IN [ok |-> rest.ok, items |-> <<output_string.val>> \o rest.items]

PrintDir(f, list, db) ==
    IF f.entry_type = "Dir" THEN PrintChilds(f.childs, list, db)
    ELSE [ok |-> TRUE, items |-> <<>>]

\* print_dir_rec: the lines written.
RECURSIVE PrintDirRec(_, _, _)
RECURSIVE PrintRecChilds(_, _, _, _)
RECURSIVE PrintRecChildsLastOnly(_, _, _, _)

\* Mutant of PrintRecChilds: a directory takes its marker from its position
\* alone, as a file does.
PrintRecChildsLastOnly(childs, i, depth, tree) ==
    IF i > Len(childs) THEN <<>>
    ELSE LET child  == childs[i]
             last   == i = Len(childs)
             indent == [k \in 1..depth |-> INDENT]
             rest   == PrintRecChildsLastOnly(childs, i + 1, depth, tree)
             prefix == Append(indent, IF last THEN LAST_SIGN ELSE ITEM_SIGN)
         IN IF child.entry_type = "File"
            THEN <<TreeLine(prefix, child)>> \o rest
            ELSE <<TreeLine(prefix, child)>>
                 \o PrintDirRec(child, (depth + 1) % 256, tree)
                 \o rest

\* Mutant of PrintDirRec: the depth check is off by one.
PrintDirRecOffByOne(f, depth, tree) ==
    IF tree <= depth + 1 THEN <<>>
    ELSE IF f.entry_type = "Dir" THEN PrintRecChilds(f.childs, 1, depth, tree)
    ELSE <<>>

PrintRecChilds(childs, i, depth, tree) ==
    IF i > Len(childs) THEN <<>>
    ELSE LET child  == childs[i]
             last   == i = Len(childs)
             indent == [k \in 1..depth |-> INDENT]
             rest   == PrintRecChilds(childs, i + 1, depth, tree)
         IN IF child.entry_type = "File"
            THEN LET prefix == Append(indent, IF last THEN LAST_SIGN ELSE ITEM_SIGN)
                 IN <<TreeLine(prefix, child)>> \o rest
            ELSE LET prefix == Append(indent,
                                      IF last /\ child.childs = <<>>
                                      THEN LAST_SIGN ELSE ITEM_SIGN)
                 IN <<TreeLine(prefix, child)>>
                    \o PrintDirRec(child, (depth + 1) % 256, tree)
                    \o rest

PrintDirRec(f, depth, tree) ==
    IF tree <= depth THEN <<>>
    ELSE IF f.entry_type = "Dir" THEN PrintRecChilds(f.childs, 1, depth, tree)
    ELSE <<>>

\* list: the items written, and whether it returned Ok.
List(f, a, db) ==
    IF a.list /\ a.tree > 1
    THEN LET p == PrintDir(f, a.list, db)
         IN IF p.ok THEN [ok |-> TRUE, items |-> <<Header>> \o p.items \o <<Newline>>]
            ELSE [ok |-> FALSE, items |-> <<Header>> \o p.items]
    ELSE LET head == IF a.list THEN <<Header>> ELSE <<>>
         IN IF a.tree > 1
            THEN [ok |-> TRUE,
                  items |-> head \o PrintDirRec(f, 0, a.tree) \o <<Newline>>]
            ELSE LET p == PrintDir(f, a.list, db)
                 IN IF p.ok THEN [ok |-> TRUE, items |-> head \o p.items \o <<Newline>>]
                    ELSE [ok |-> FALSE, items |-> head \o p.items]

(***************************************************************************)
(* main, one action per step.                                              *)
(***************************************************************************)
MainNotADirectory ==
    /\ pc = "main"
    /\ ~PathIsDir(0)
    /\ pc' = "exited"
    /\ exit_code' = 1
    /\ UNCHANGED <<fs, order, args, dir_entry, out, fs_file, users, row>>

MainReadDirectory ==
    /\ pc = "main"
    /\ PathIsDir(0)
    /\ LET r == ReadDirectory(0, args.tree, args.all, order)
       IN IF r.ok
          THEN /\ dir_entry' = r.val
               /\ pc' = "list"
               /\ exit_code' = exit_code
          ELSE /\ dir_entry' = dir_entry
               /\ pc' = "read_panicked"
               /\ exit_code' = 101
    /\ UNCHANGED <<fs, order, args, out, fs_file, users, row>>

MainList ==
    /\ pc = "list"
    /\ \E db \in (IF args.list THEN UserDbs ELSE {users}) :
          LET r == List(dir_entry, args, db)
          IN /\ users' = db
             /\ out' = r.items
             /\ IF r.ok
                THEN pc' = "exited" /\ exit_code' = 0
                ELSE pc' = "list_panicked" /\ exit_code' = 101
    /\ UNCHANGED <<fs, order, args, dir_entry, fs_file, row>>

Next == MainNotADirectory \/ MainReadDirectory \/ MainList

Spec == Init /\ [][Next]_vars

(***************************************************************************)
(* parse_dir_entry on its own: every permission mode of a file and of a    *)
(* directory, under every user database.                                   *)
(***************************************************************************)
InitParse ==
    /\ fs = PlainFs
    /\ order = "fwd"
    /\ args = [list |-> TRUE, all |-> FALSE, tree |-> 1]
    /\ pc = "parse"
    /\ dir_entry = NoEntry
    /\ out = <<>>
    /\ exit_code = -1
    /\ \E type \in {S_IFREG, S_IFDIR}, perm \in 0..511, gid \in IdSet :
          fs_file = FSFile(PlainName(1), <<PlainName(0), PlainName(1)>>,
                           [ino |-> 1, mode |-> type + perm, uid |-> 0, gid |-> gid,
                            size |-> perm],
                           IF type = S_IFDIR THEN "Dir" ELSE "File", <<>>)
    /\ users \in UserDbs
    /\ row = Err("")

ParseEntry ==
    /\ pc = "parse"
    /\ row' = ParseDirEntry(fs_file, users)
    /\ pc' = "parsed"
    /\ UNCHANGED <<fs, order, args, dir_entry, out, exit_code, fs_file, users>>

NextParse == ParseEntry

SpecParse == InitParse /\ [][NextParse]_vars

(***************************************************************************)
(* Vocabulary of the properties.                                           *)
(***************************************************************************)
\* Every entry of a snapshot with its level (the root is at level 0).
RECURSIVE Subtrees(_, _)
Subtrees(t, k) ==
    {[t |-> t, level |-> k]}
    \cup UNION {Subtrees(t.childs[i], k + 1) : i \in DOMAIN t.childs}

Inos(t) == {s.t.metadata.ino : s \in Subtrees(t, 0)}

ChildInos(t) == {t.childs[i].metadata.ino : i \in DOMAIN t.childs}

\* The snapshot with the children of every directory at level k removed.
RECURSIVE Truncate(_, _)
Truncate(t, k) ==
    IF k = 0 THEN [t EXCEPT !.childs = <<>>]
    ELSE [t EXCEPT !.childs = [i \in DOMAIN t.childs |-> Truncate(t.childs[i], k - 1)]]

Hidden(c) == StartsWithDot(fs[c].name)

Listable(n) == fs[n].kind = "Dir" /\ fs[n].listOk

\* The entry passes the hidden-file filter of the run.
PassesFilter(c) == args.all \/ ~Hidden(c)

\* The entry can be read on its own: the directory yields it, its metadata
\* and its name can be read and, if it is a directory that is listed (budget
\* above 0), it can be listed.
SelfReadable(c, budget) ==
    /\ fs[c].entOk
    /\ fs[c].metaOk
    /\ \A i \in DOMAIN fs[c].name : fs[c].name[i] < 128
    /\ \/ fs[c].kind = "File"
       \/ fs[c].kind = "Dir" /\ (budget = 0 \/ Listable(c))

RECURSIVE HasHiddenAncestor(_)
HasHiddenAncestor(n) ==
    IF n = 0 THEN FALSE ELSE Hidden(n) \/ HasHiddenAncestor(ParentOf[n])

OtherOrder == IF order = "fwd" THEN "rev" ELSE "fwd"

TreeMode == ~args.list /\ args.tree > 1

Listed == pc = "exited" /\ exit_code = 0

TreeLines == SelectSeq(out, LAMBDA l : l.kind = "line")

\* The entries below the root in depth-first pre-order, with their levels.
RECURSIVE PreOrder(_, _)
RECURSIVE PreOrderSeq(_, _, _)
PreOrderSeq(childs, i, k) ==
    IF i > Len(childs) THEN <<>>
    ELSE <<[name |-> childs[i].name, level |-> k]>>
         \o PreOrder(childs[i], k) \o PreOrderSeq(childs, i + 1, k)

PreOrder(t, k) == PreOrderSeq(t.childs, 1, k + 1)

\* The conventional rendering of the mode bits: rwx for owner, group, other.
ConventionalModes(md) ==
    <<IF IsDir(md) THEN "d" ELSE "-">>
    \o [i \in 1..9 |->
           IF (md.mode \div (2 ^ (9 - i))) % 2 = 1
           THEN <<"r", "w", "x">>[((i - 1) % 3) + 1]
           ELSE "-"]

(***************************************************************************)
(* C1                                                                      *)
(***************************************************************************)
\* C1: for every 9-bit mode the permission string of parse_dir_entry is the
\* conventional 'rwxrwxrwx' rendering, with 'd' in front for a directory and
\* '-' otherwise.
C1_ConventionalModes ==
    (pc = "parsed" /\ row.ok) =>
        row.val.cols.modes = ConventionalModes(fs_file.metadata)

(***************************************************************************)
(* C2                                                                      *)
(***************************************************************************)
MarkerOf(l) == l.prefix[Len(l.prefix)]

AtOwnLevel(l, k) ==
    /\ Len(l.prefix) = k + 1
    /\ \A j \in 1..k : l.prefix[j] = INDENT

\* The marker of the i-th child: the terminal one for the last child (when
\* leafOnly, for the last child only if it has no children of its own).
WantedMarker(childs, i, leafOnly) ==
    IF i = Len(childs) /\ (~leafOnly \/ childs[i].childs = <<>>)
    THEN LAST_SIGN ELSE ITEM_SIGN

\* Every line printed for a child of an entry at level k carries the wanted
\* marker after k indentation units.
MarkersAre(leafOnly) ==
    (Listed /\ TreeMode) =>
        \A s \in Subtrees(dir_entry, 0) :
            \A i \in DOMAIN s.t.childs :
                \A j \in DOMAIN out :
                    (out[j].kind = "line" /\ out[j].name = s.t.childs[i].name) =>
                        /\ AtOwnLevel(out[j], s.level)
                        /\ MarkerOf(out[j]) = WantedMarker(s.t.childs, i, leafOnly)

\* C2 (as claimed): the last entry of every printed children sequence has the
\* marker '|_' and every other entry '|-', also when the last entry is a
\* directory that has children.
C2_LastAlwaysTerminal == MarkersAre(FALSE)

\* C2 (amended): the last entry of a printed children sequence has the marker
\* '|_' when it is a file or a directory without children in the snapshot; a
\* last directory that has children has '|-', like every entry that is not
\* the last.
C2_LastLeafTerminal == MarkersAre(TRUE)

C2_Witness ==
    /\ Listed /\ TreeMode
    /\ \E j \in DOMAIN out :
          /\ out[j].kind = "line"
          /\ out[j].name = dir_entry.childs[Len(dir_entry.childs)].name
          /\ dir_entry.childs[Len(dir_entry.childs)].childs /= <<>>
          /\ MarkerOf(out[j]) = ITEM_SIGN
    /\ \E j \in DOMAIN out : out[j].kind = "line" /\ MarkerOf(out[j]) = LAST_SIGN

(***************************************************************************)
(* C3                                                                      *)
(***************************************************************************)
DeeperBuild == ReadDirectory(0, args.tree + 1, args.all, order)

LevelNListable ==
    \A s \in Subtrees(dir_entry, 0) :
        (s.level = args.tree /\ s.t.entry_type = "Dir") => Listable(s.t.metadata.ino)

\* C3 (as claimed): read_directory(D, 0) is a directory without children, and
\* read_directory(D, N) is read_directory(D, N+1) truncated at level N, in
\* every filesystem state, unreadable subdirectories included (stated for
\* the runs in which both builds succeed).
C3_TruncationAlways ==
    (pc = "list" /\ DeeperBuild.ok) =>
        /\ args.tree = 0 => (dir_entry.entry_type = "Dir" /\ dir_entry.childs = <<>>)
        /\ dir_entry = Truncate(DeeperBuild.val, args.tree)

\* C3 (amended): read_directory(D, 0) is a directory without children, and
\* read_directory(D, N) is read_directory(D, N+1) truncated at level N
\* whenever every directory that read_directory(D, N) has at level N (D
\* itself for N = 0) can be listed.
C3_TruncationWhenListable ==
    pc = "list" =>
        /\ args.tree = 0 => (dir_entry.entry_type = "Dir" /\ dir_entry.childs = <<>>)
        /\ LevelNListable =>
              /\ DeeperBuild.ok
              /\ dir_entry = Truncate(DeeperBuild.val, args.tree)

\* A subdirectory above level N cannot be listed, those at level N can, and
\* the deeper build has entries that the truncation removes.
C3_Witness ==
    /\ pc = "list"
    /\ args.tree = 2
    /\ \E c \in Children(0) : fs[c].kind = "Dir" /\ fs[c].metaOk /\ ~fs[c].listOk
    /\ LevelNListable
    /\ DeeperBuild.ok
    /\ DeeperBuild.val /= dir_entry

(***************************************************************************)
(* C4                                                                      *)
(***************************************************************************)
\* C4: without --all no entry below the root whose name starts with '.' is
\* in the snapshot, nor any descendant of one; with --all the hidden entries
\* of the listed directories are kept.
C4_HiddenFilter ==
    pc = "list" =>
        /\ ~args.all =>
              \A s \in Subtrees(dir_entry, 0) :
                  s.level >= 1 =>
                      /\ ~StartsWithDot(s.t.name)
                      /\ ~HasHiddenAncestor(s.t.metadata.ino)
        /\ args.all =>
              \A s \in Subtrees(dir_entry, 0) :
                  (s.level < args.tree /\ s.t.entry_type = "Dir") =>
                      \A c \in Children(s.t.metadata.ino) :
                          (Hidden(c) /\ SelfReadable(c, args.tree - s.level - 1))
                              => c \in ChildInos(s.t)

C4_Witness ==
    /\ pc = "list"
    /\ ~args.all
    /\ args.tree >= 2
    /\ \E c \in Children(0) :
          /\ Hidden(c)
          /\ SelfReadable(c, 1)
          /\ \E g \in Children(c) : ~Hidden(g) /\ SelfReadable(g, 0)
    /\ dir_entry.childs /= <<>>

(***************************************************************************)
(* C5                                                                      *)
(***************************************************************************)
AllTextAndListable ==
    \A c \in Nodes :
        /\ \A i \in DOMAIN fs[c].name : fs[c].name[i] < 128
        /\ fs[c].kind = "Dir" => fs[c].listOk

\* C5: the number of children of the entry built for a directory with depth
\* budget >= 1 is the number of its entries that pass the hidden-file filter
\* and have readable metadata, whatever their kinds (regular file, directory,
\* symlink).  Stated for the filesystems in which every name is text and
\* every subdirectory can be listed.
C5_ChildCount ==
    (pc = "list" /\ AllTextAndListable) =>
        \A s \in Subtrees(dir_entry, 0) :
            (s.level < args.tree /\ s.t.entry_type = "Dir") =>
                Len(s.t.childs) =
                    Cardinality({c \in Children(s.t.metadata.ino) :
                                    fs[c].entOk /\ PassesFilter(c) /\ fs[c].metaOk})

(***************************************************************************)
(* C6                                                                      *)
(***************************************************************************)
SortedByPath(childs) ==
    \A i, j \in DOMAIN childs :
        i < j => ~LessPath(childs[j].path_buf, childs[i].path_buf)

\* C6: the children of every directory of the snapshot are in non-decreasing
\* order of full path, and the snapshot does not depend on the order in which
\* the filesystem yields the entries.
C6_Sorted ==
    pc = "list" =>
        /\ \A s \in Subtrees(dir_entry, 0) : SortedByPath(s.t.childs)
        /\ dir_entry = ReadDirectory(0, args.tree, args.all, OtherOrder).val

C6_Witness ==
    /\ pc = "list"
    /\ order = "rev"
    /\ Len(dir_entry.childs) = 3
    /\ \E i \in DOMAIN dir_entry.childs : Len(dir_entry.childs[i].childs) = 2

(***************************************************************************)
(* C7                                                                      *)
(***************************************************************************)
RootFailure ==
    \/ fs[0].name = <<>>
    \/ \E i \in DOMAIN fs[0].name : fs[0].name[i] >= 128
    \/ ~fs[0].metaOk
    \/ args.tree >= 1 /\ ~Listable(0)

\* C7: read_directory on the root fails only when the root's own name,
\* metadata or listing cannot be obtained; a failure on a descendant omits
\* that entry alone: every entry of a listed directory that passes the filter
\* and can be read on its own is among the children.
C7_FailureContained ==
    /\ pc = "read_panicked" => RootFailure
    /\ pc = "list" =>
          \A s \in Subtrees(dir_entry, 0) :
              (s.level < args.tree /\ s.t.entry_type = "Dir") =>
                  \A c \in Children(s.t.metadata.ino) :
                      (PassesFilter(c) /\ SelfReadable(c, args.tree - s.level - 1))
                          => c \in ChildInos(s.t)

\* An entry of the root fails (metadata, listing or name) and its two
\* siblings are in the snapshot.
C7_Witness ==
    /\ pc = "list"
    /\ args.tree >= 2
    /\ \E c \in Children(0) :
          /\ PassesFilter(c)
          /\ \/ ~fs[c].metaOk
             \/ fs[c].kind = "Dir" /\ ~fs[c].listOk
             \/ \E i \in DOMAIN fs[c].name : fs[c].name[i] >= 128
          /\ c \notin ChildInos(dir_entry)
    /\ Len(dir_entry.childs) = 2

(***************************************************************************)
(* C8                                                                      *)
(***************************************************************************)
Resolvable(md) == users[md.uid] = "name" /\ users[md.gid] = "name"

\* C8: with --list, a child whose owner or group cannot be resolved does not
\* abort the run: list returns Ok, the process does not panic and the rows
\* of the other children are output.
C8_DetailedNeverCrashes ==
    (args.list /\ pc \in {"exited", "list_panicked"} /\ exit_code /= 1) =>
        /\ pc = "exited"
        /\ exit_code = 0
        /\ \A i \in DOMAIN dir_entry.childs :
              Resolvable(dir_entry.childs[i].metadata) =>
                  \E j \in DOMAIN out :
                      out[j].kind = "row" /\ out[j].name = dir_entry.childs[i].name

(***************************************************************************)
(* C9                                                                      *)
(***************************************************************************)
Terminated == pc \in {"exited", "read_panicked", "list_panicked"}

\* C9: a path that is no directory, or a directory that cannot be opened
\* when it is to be listed, ends the process with exit code 1 and no listing;
\* a successful listing ends it with exit code 0.
C9_ExitCodes ==
    Terminated =>
        /\ (~PathIsDir(0) \/ (args.tree >= 1 /\ ~Listable(0))) =>
              (exit_code = 1 /\ out = <<>>)
        /\ (pc = "exited" /\ out /= <<>>) => exit_code = 0

(***************************************************************************)
(* C10                                                                     *)
(***************************************************************************)
\* C10: in tree mode print_dir_rec prints one line for every entry of the
\* snapshot below the root, in depth-first pre-order, an entry at level k
\* indented by k-1 units; the depth check of the renderer suppresses nothing
\* the builder materialised and nothing is printed twice.
C10_OneLinePerEntry ==
    (Listed /\ TreeMode) =>
        LET expected == PreOrder(dir_entry, 0)
        IN /\ Len(TreeLines) = Len(expected)
           /\ \A i \in DOMAIN expected :
                 /\ TreeLines[i].name = expected[i].name
                 /\ AtOwnLevel(TreeLines[i], expected[i].level - 1)

C10_Witness ==
    /\ Listed /\ TreeMode
    /\ args.tree = 3
    /\ \E i \in DOMAIN TreeLines : Len(TreeLines[i].prefix) = 3
    /\ Len(TreeLines) = Cardinality(Nodes)
====
